---- MODULE Spec2Model ----
(***************************************************************************)
(* QA generation with human review: the chunker and the per-chunk QA       *)
(* generation of generate_qa.py, the Label Studio export of                *)
(* export_to_labelstudio.py, and the review import and quality filter of   *)
(* process_labelstudio_results.py.                                         *)
(*                                                                         *)
(* A string is a sequence of one-character strings.  Four specifications   *)
(* share the variables:                                                    *)
(*   Spec        main() of generate_qa.py followed by the export           *)
(*   SpecLocate  find_answer_location applied to drawn inputs              *)
(*   SpecFilter  filter_qa_by_quality applied to drawn reviewed items      *)
(*   SpecReview  main() of process_labelstudio_results.py                  *)
(***************************************************************************)
EXTENDS Integers, Sequences, FiniteSets, TLC

VARIABLES
    text,          \* the document read by main()
    chunk_size,    \* chunk_text_with_positions parameter
    overlap,       \* chunk_text_with_positions parameter
    pc,            \* position of the running script
    start,         \* chunker cursor
    chunk_id,      \* chunker id counter
    chunks,        \* chunker result list
    gen_i,         \* main(): index of the next chunk to generate from (0-based)
    response,      \* generate_qa_pairs_with_refs: the reply to the latest call
    all_qa_pairs,  \* main(): aggregated QA pairs
    tasks,         \* convert_to_labelstudio_format result
    loc_answer,    \* find_answer_location argument
    loc_chunk,     \* find_answer_location argument
    loc_result,    \* find_answer_location return value
    original_qa,   \* process_labelstudio_export: the original QA pairs
    processed_qa,  \* process_labelstudio_export: merged records
    completed,     \* process_labelstudio_export: stats['completed']
    item_no,       \* process_labelstudio_export: records of the export read so far
    item,          \* process_labelstudio_export: the record read last
    min_quality,   \* filter_qa_by_quality parameter
    filtered_qa,   \* filter_qa_by_quality: accepted list
    rejected_qa    \* filter_qa_by_quality: rejected list

vars == <<text, chunk_size, overlap, pc, start, chunk_id, chunks, gen_i,
          response, all_qa_pairs, tasks, loc_answer, loc_chunk, loc_result,
          original_qa, processed_qa, completed, item_no, item,
          min_quality, filtered_qa, rejected_qa>>

chunkVars == <<text, chunk_size, overlap, start, chunk_id, chunks, gen_i,
               response, all_qa_pairs, tasks>>
locVars == <<loc_answer, loc_chunk, loc_result>>
reviewVars == <<original_qa, processed_qa, completed, item_no, item,
               min_quality,
                filtered_qa, rejected_qa>>

(***************************************************************************)
(* Bounds of the model.                                                    *)
(***************************************************************************)
MaxLen == 4
MaxChunkSize == 3

\* The loop of an invalid configuration never ends; the model stops it here.
\* A valid configuration emits at most Len(text) chunks, so the cap never
\* binds for one.
ChunkCap == MaxLen + 2

None == "None"
NL == "\n"
SP == " "

(***************************************************************************)
(* Python primitives.                                                      *)
(***************************************************************************)
Min(a, b) == IF a < b THEN a ELSE b

\* A slice bound as Python normalises it: negative counts from the end, and
\* the result is clamped to 0..n.
NormIndex(i, n) ==
    IF i < 0 THEN (IF i + n < 0 THEN 0 ELSE i + n)
    ELSE IF i > n THEN n ELSE i

\* s[i:j]
PySlice(s, i, j) ==
    LET n == Len(s)
        a == NormIndex(i, n)
        b == NormIndex(j, n)
    IN IF a >= b THEN <<>> ELSE SubSeq(s, a + 1, b)

\* s.count(c) for a one-character c
Count(s, c) == Cardinality({i \in 1..Len(s) : s[i] = c})

\* s.replace('\n', ' ')
ReplaceNewlines(s) == [i \in 1..Len(s) |-> IF s[i] = NL THEN SP ELSE s[i]]

\* All strings over alphabet A of length at most n.
Strings(A, n) == UNION {[1..k -> A] : k \in 0..n}

(***************************************************************************)
(* chunk_text_with_positions                                               *)
(***************************************************************************)
PreviewLen == 100
Ellipsis == <<".", ".", ".">>
SourceDocument == "doc.txt"

DocAlphabet == {"A", NL}
Texts == Strings(DocAlphabet, MaxLen)
ChunkSizes == (-1)..MaxChunkSize
Overlaps == 0..MaxChunkSize

ValidConfig == chunk_size > 0 /\ 0 <= overlap /\ overlap < chunk_size

LoopCondition_Inclusive(s) == s <= Len(text)

\* while start < len(text)
LoopCondition(s) == s < Len(text)

ChunkEnd_NoMin(s) == s + chunk_size

\* end = min(start + chunk_size, len(text))
ChunkEnd(s) == Min(s + chunk_size, Len(text))

ChunkData_LinesToEnd(s, e, id) ==
    LET chunk_text == PySlice(text, s, e)
        lines_before == Count(PySlice(text, 0, e), NL)
        lines_in_chunk == Count(chunk_text, NL)
    IN [id |-> id,
        text |-> chunk_text,
        char_start |-> s,
        char_end |-> e,
        line_start |-> lines_before + 1,
        line_end |-> lines_before + lines_in_chunk + 1,
        preview |-> ReplaceNewlines(PySlice(chunk_text, 0, 100)) \o <<".", ".", ".">>,
        source_document |-> "doc.txt"]

ChunkData(s, e, id) ==
    LET chunk_text == PySlice(text, s, e)
        lines_before == Count(PySlice(text, 0, s), NL)
        lines_in_chunk == Count(chunk_text, NL)
    IN [id |-> id,
        text |-> chunk_text,
        char_start |-> s,
        char_end |-> e,
        line_start |-> lines_before + 1,
        line_end |-> lines_before + lines_in_chunk + 1,
        preview |-> ReplaceNewlines(PySlice(chunk_text, 0, PreviewLen)) \o Ellipsis,
        source_document |-> SourceDocument]

NextStart_AlwaysOverlap(e) == e - overlap

NextStart_NoOverlap(e) == e

\* start = end - overlap if end < len(text) else end
NextStart(e) == IF e < Len(text) THEN e - overlap ELSE e

\* One iteration of the while loop.
ChunkStep ==
    /\ pc = "chunking"
    /\ LoopCondition(start)
    /\ Len(chunks) < ChunkCap
    /\ LET e == ChunkEnd(start)
       IN /\ chunks' = Append(chunks, ChunkData(start, e, chunk_id))
          /\ chunk_id' = chunk_id + 1
          /\ start' = NextStart(e)
    /\ UNCHANGED <<text, chunk_size, overlap, pc, gen_i, response, all_qa_pairs,
                   tasks>>
    /\ UNCHANGED <<locVars, reviewVars>>

\* The loop condition fails: return chunks to main().
ChunkReturn ==
    /\ pc = "chunking"
    /\ ~LoopCondition(start)
    /\ pc' = "generating"
    /\ gen_i' = 0
    /\ UNCHANGED <<text, chunk_size, overlap, start, chunk_id, chunks,
                   response, all_qa_pairs, tasks>>
    /\ UNCHANGED <<locVars, reviewVars>>

(***************************************************************************)
(* find_answer_location                                                    *)
(***************************************************************************)
ProbeWords == 5
NotFound == -1

\* str.isspace() of one character
IsSpace(c) == c \in {SP, NL}

\* str.lower() of one character.  "I_dot" stands for U+0130, the one
\* character whose lower-case form is two characters long.
LowerChar(c) ==
    IF c = "A" THEN <<"a">>
    ELSE IF c = "I_dot" THEN <<"i", "dot_above">>
    ELSE <<c>>

RECURSIVE Lower(_)
Lower(s) == IF s = <<>> THEN <<>> ELSE LowerChar(Head(s)) \o Lower(Tail(s))

\* str.split(): the maximal runs of non-whitespace characters, in order.
RECURSIVE SplitFrom(_, _, _)
SplitFrom(s, cur, acc) ==
    IF s = <<>> THEN (IF cur = <<>> THEN acc ELSE Append(acc, cur))
    ELSE IF IsSpace(Head(s))
         THEN SplitFrom(Tail(s), <<>>, IF cur = <<>> THEN acc ELSE Append(acc, cur))
         ELSE SplitFrom(Tail(s), Append(cur, Head(s)), acc)

Split(s) == SplitFrom(s, <<>>, <<>>)

\* ' '.join(words)
RECURSIVE JoinSpace(_)
JoinSpace(words) ==
    IF words = <<>> THEN <<>>
    ELSE IF Len(words) = 1 THEN words[1]
    ELSE words[1] \o <<SP>> \o JoinSpace(Tail(words))

Find_Rightmost(hay, needle) ==
    LET hits == {p \in 0..(Len(hay) - Len(needle)) :
                    SubSeq(hay, p + 1, p + Len(needle)) = needle}
    IN IF hits = {} THEN -1
       ELSE CHOOSE p \in hits : \A q \in hits : p >= q

\* hay.find(needle): the least offset of an occurrence, or -1
Find(hay, needle) ==
    LET hits == {p \in 0..(Len(hay) - Len(needle)) :
                    SubSeq(hay, p + 1, p + Len(needle)) = needle}
    IN IF hits = {} THEN -1
       ELSE CHOOSE p \in hits : \A q \in hits : p <= q

SearchText(answer) == JoinSpace(PySlice(Split(Lower(answer)), 0, ProbeWords))

FindAnswerLocation(answer, chunk_text) ==
    LET search_text == SearchText(answer)
        chunk_lower == Lower(chunk_text)
        pos == Find(chunk_lower, search_text)
    IN IF pos # -1
       THEN Count(PySlice(chunk_text, 0, pos), NL)
       ELSE NotFound

(***************************************************************************)
(* generate_qa_pairs_with_refs and the loop of main()                      *)
(***************************************************************************)
HasKey(d, k) == k \in DOMAIN d

\* What the language-model call can come back with: an exception of the
\* client, content that json.loads rejects, or a parsed list of elements.
Element(a) == [question |-> "Q", answer |-> a]
Answers == {<<>>, <<SP>>, <<"A">>}
Parsed(items) == [kind |-> "list", items |-> items]
Failed(kind) == [kind |-> kind, items |-> <<>>]
Responses ==
    {Failed("service_error"), Failed("not_json")}
    \cup {Parsed(<<>>)}
    \cup {Parsed(<<Element(a)>>) : a \in Answers}
    \cup {Parsed(<<Element(<<"A">>), Element(<<>>)>>)}
    \cup {Parsed(<<[question |-> "Q"]>>),
          Parsed(<<Element(<<"A">>), [question |-> "Q"]>>),
          Parsed(<<[answer |-> <<"A">>]>>)}

NoResponse == [kind |-> "none", items |-> <<>>]

IsFailure(resp) == resp.kind # "list"

Reference_LineForChar(chunk) ==
    [chunk_id |-> chunk.id,
     char_start |-> chunk.line_start,
     char_end |-> chunk.line_end,
     line_start |-> chunk.line_start,
     line_end |-> chunk.line_end,
     chunk_preview |-> chunk.preview,
     source_document |-> chunk.source_document]

Reference(chunk) ==
    [chunk_id |-> chunk.id,
     char_start |-> chunk.char_start,
     char_end |-> chunk.char_end,
     line_start |-> chunk.line_start,
     line_end |-> chunk.line_end,
     chunk_preview |-> chunk.preview,
     source_document |-> chunk.source_document]

AddAnswerLine_FromLineEnd(ref, chunk, answer_line) ==
    IF answer_line # NotFound
    THEN ref @@ [answer_line_in_chunk |-> answer_line,
                 answer_line_in_doc |-> chunk.line_end + answer_line]
    ELSE ref

AddAnswerLine_Truthy(ref, chunk, answer_line) ==
    IF answer_line # NotFound /\ answer_line # 0
    THEN ref @@ [answer_line_in_chunk |-> answer_line,
                 answer_line_in_doc |-> chunk.line_start + answer_line]
    ELSE ref

\* The two optional keys, written only when the locator returns a line
\* ("if answer_line is not None").
AddAnswerLine(ref, chunk, answer_line) ==
    IF answer_line # NotFound
    THEN ref @@ [answer_line_in_chunk |-> answer_line,
                 answer_line_in_doc |-> chunk.line_start + answer_line]
    ELSE ref

WithReference(qa, chunk) ==
    LET answer_line == FindAnswerLocation(qa.answer, chunk.text)
    IN qa @@ [reference |-> AddAnswerLine(Reference(chunk), chunk, answer_line)]

\* The list the function returns for one chunk.  qa['answer'] on an element
\* without that key raises KeyError inside the try block.
GenerateQaPairsWithRefs(chunk, resp) ==
    IF IsFailure(resp) THEN <<>>
    ELSE IF \E i \in 1..Len(resp.items) : ~HasKey(resp.items[i], "answer") THEN <<>>
    ELSE [i \in 1..Len(resp.items) |-> WithReference(resp.items[i], chunk)]

\* One iteration of "for i, chunk in enumerate(chunks)".
GenerateChunk ==
    /\ pc = "generating"
    /\ gen_i < Len(chunks)
    /\ \E resp \in Responses :
         /\ response' = resp
         /\ all_qa_pairs' =
               all_qa_pairs \o GenerateQaPairsWithRefs(chunks[gen_i + 1], resp)
    /\ gen_i' = gen_i + 1
    /\ UNCHANGED <<text, chunk_size, overlap, pc, start, chunk_id, chunks, tasks>>
    /\ UNCHANGED <<locVars, reviewVars>>

\* The loop is over: the output file is written, then create_review_format
\* reads qa['question'] of every pair and the summary divides by
\* len(chunks); either can raise, after the output file is on disk.
FinishMain ==
    /\ pc = "generating"
    /\ gen_i = Len(chunks)
    /\ pc' = IF \/ \E i \in 1..Len(all_qa_pairs) : ~HasKey(all_qa_pairs[i], "question")
             \/ Len(chunks) = 0
             THEN "main_crashed"
             ELSE "main_done"
    /\ UNCHANGED chunkVars
    /\ UNCHANGED <<locVars, reviewVars>>

(***************************************************************************)
(* convert_to_labelstudio_format                                           *)
(***************************************************************************)
Task(i, qa) ==
    LET ref == qa.reference
        chunk_start == ref.char_start
        chunk_end == ref.char_end
    IN [id |-> i,
        data |-> [question |-> qa.question,
                  answer |-> qa.answer,
                  context |-> PySlice(text, chunk_start, chunk_end),
                  chunk_id |-> ref.chunk_id,
                  line_range |-> <<ref.line_start, ref.line_end>>,
                  char_range |-> <<chunk_start, chunk_end>>,
                  qa_pair_id |-> i,
                  chunk_preview |-> ref.chunk_preview]]

\* The export script, run on the files main() wrote.  qa['question'] on a
\* pair without that key raises KeyError and no task list is returned.
Export ==
    /\ pc \in {"main_done", "main_crashed"}
    /\ IF \E i \in 1..Len(all_qa_pairs) : ~HasKey(all_qa_pairs[i], "question")
       THEN pc' = "export_crashed" /\ tasks' = tasks
       ELSE /\ pc' = "exported"
            /\ tasks' = [i \in 1..Len(all_qa_pairs) |-> Task(i, all_qa_pairs[i])]
    /\ UNCHANGED <<text, chunk_size, overlap, start, chunk_id, chunks, gen_i,
                   response, all_qa_pairs>>
    /\ UNCHANGED <<locVars, reviewVars>>

IdleLoc == loc_answer = <<>> /\ loc_chunk = <<>> /\ loc_result = NotFound
\* Before the first record is read the loop variable is unbound.
NoItem == [annotations |-> <<>>, unbound |-> TRUE]

IdleReview ==
    /\ original_qa = <<>>
    /\ processed_qa = <<>>
    /\ completed = 0
    /\ item_no = 0
    /\ item = NoItem
    /\ min_quality = "Good"
    /\ filtered_qa = <<>>
    /\ rejected_qa = <<>>
IdleChunk ==
    /\ text = <<>>
    /\ chunk_size = 1
    /\ overlap = 0
    /\ start = 0
    /\ chunk_id = 0
    /\ chunks = <<>>
    /\ gen_i = 0
    /\ response = NoResponse
    /\ all_qa_pairs = <<>>
    /\ tasks = <<>>

Init ==
    /\ text \in Texts
    /\ chunk_size \in ChunkSizes
    /\ overlap \in Overlaps
    /\ pc = "chunking"
    /\ start = 0
    /\ chunk_id = 0
    /\ chunks = <<>>
    /\ gen_i = 0
    /\ response = NoResponse
    /\ all_qa_pairs = <<>>
    /\ tasks = <<>>
    /\ IdleLoc
    /\ IdleReview

Next ==
    \/ ChunkStep
    \/ ChunkReturn
    \/ GenerateChunk
    \/ FinishMain
    \/ Export

Spec == Init /\ [][Next]_vars

(***************************************************************************)
(* find_answer_location applied to drawn arguments.                        *)
(***************************************************************************)
MaxAnswerLen == 2
MaxLocChunkLen == 2
MaxWords == 6

LocAlphabet == {"a", "A", SP, NL, "I_dot"}

\* words joined by single spaces
RECURSIVE Spaced(_)
Spaced(ws) ==
    IF ws = <<>> THEN <<>>
    ELSE IF Len(ws) = 1 THEN <<ws[1]>>
    ELSE <<ws[1], SP>> \o Spaced(Tail(ws))

\* Answers of ProbeWords one-letter words and more.
LongAnswers ==
    {Spaced(ws) : ws \in UNION {[1..n -> {"a", "A"}] : n \in ProbeWords..MaxWords}}

\* Chunks that hold ProbeWords one-letter words, with and without a line
\* break before them and a word after them.
LongChunks ==
    {pre \o Spaced(ws) \o post :
        pre \in {<<>>, <<NL>>, <<"a", NL>>},
        ws \in [1..ProbeWords -> {"a", "A"}],
        post \in {<<>>, <<SP, "a">>}}
    \cup {<<"I_dot", "I_dot", "a", NL>>}

LocAnswers == Strings(LocAlphabet, MaxAnswerLen) \cup LongAnswers
LocChunks == Strings(LocAlphabet, MaxLocChunkLen) \cup LongChunks

InitLocate ==
    /\ pc = "locate"
    /\ loc_answer \in LocAnswers
    /\ loc_chunk \in LocChunks
    /\ loc_result = NotFound
    /\ IdleChunk
    /\ IdleReview

Locate ==
    /\ pc = "locate"
    /\ loc_result' = FindAnswerLocation(loc_answer, loc_chunk)
    /\ pc' = "located"
    /\ UNCHANGED <<loc_answer, loc_chunk>>
    /\ UNCHANGED <<chunkVars, reviewVars>>

NextLocate == Locate

SpecLocate == InitLocate /\ [][NextLocate]_vars

(***************************************************************************)
(* filter_qa_by_quality                                                    *)
(***************************************************************************)
\* dict.get(k, default)
DictGet(d, k, default) == IF HasKey(d, k) THEN d[k] ELSE default

EmptyDict == [k \in {} |-> k]

QualityLevel_FairAsGood(quality) ==
    CASE quality = "Excellent" -> 4
      [] quality = "Good" -> 3
      [] quality = "Fair" -> 3
      [] quality = "Poor" -> 1
      [] OTHER -> 0

\* quality_levels.get(quality, 0)
QualityLevel(quality) ==
    CASE quality = "Excellent" -> 4
      [] quality = "Good" -> 3
      [] quality = "Fair" -> 2
      [] quality = "Poor" -> 1
      [] OTHER -> 0

\* quality_levels.get(min_quality, 3)
MinLevel(mq) == IF QualityLevel(mq) = 0 THEN 3 ELSE QualityLevel(mq)

AcceptedAccuracy == {"Accurate", "Partially Accurate"}

Accepts(qa, mq) ==
    LET review == DictGet(qa, "review", EmptyDict)
        quality == DictGet(review, "quality", "Fair")
        accuracy == DictGet(review, "accuracy", "Partially Accurate")
    IN QualityLevel(quality) >= MinLevel(mq) /\ accuracy \in AcceptedAccuracy

\* The two lists the loop builds, each in input order.
FilterQaByQuality(processed, mq) ==
    LET Good(qa) == Accepts(qa, mq)
        Bad(qa) == ~Accepts(qa, mq)
    IN [filtered |-> SelectSeq(processed, Good),
        rejected |-> SelectSeq(processed, Bad)]

(***************************************************************************)
(* The labels a review can carry: the choices of the labeling              *)
(* configuration, or None where the reviewer chose nothing.                *)
(***************************************************************************)
QualityChoices == {"Excellent", "Good", "Fair", "Poor"}
AccuracyChoices == {"Accurate", "Partially Accurate", "Inaccurate", "Cannot Determine"}
MinQualityChoices == {"Excellent", "Good", "Fair"}

OriginalPair(i) == [question |-> i, answer |-> <<"A">>]

ReviewData(accuracy, quality) ==
    [accuracy |-> accuracy,
     relevance |-> None,
     quality |-> quality,
     issues |-> <<>>,
     notes |-> None]

(***************************************************************************)
(* filter_qa_by_quality applied to drawn reviewed items.                   *)
(***************************************************************************)
MaxReviewed == 2

ReviewedItems ==
    {OriginalPair(1) @@ [review |-> ReviewData(a, q), reviewer_id |-> 1, review_date |-> "t"] :
        a \in AccuracyChoices \cup {None}, q \in QualityChoices \cup {None}}

InitFilter ==
    /\ pc = "filter"
    /\ processed_qa \in UNION {[1..n -> ReviewedItems] : n \in 0..MaxReviewed}
    /\ min_quality \in MinQualityChoices
    /\ original_qa = <<>>
    /\ completed = 0
    /\ item_no = 0
    /\ item = NoItem
    /\ filtered_qa = <<>>
    /\ rejected_qa = <<>>
    /\ IdleChunk
    /\ IdleLoc

Filter ==
    /\ pc = "filter"
    /\ LET r == FilterQaByQuality(processed_qa, min_quality)
       IN filtered_qa' = r.filtered /\ rejected_qa' = r.rejected
    /\ pc' = "filtered"
    /\ UNCHANGED <<original_qa, processed_qa, completed, item_no, item,
                   min_quality>>
    /\ UNCHANGED <<chunkVars, locVars>>

NextFilter == Filter

SpecFilter == InitFilter /\ [][NextFilter]_vars

(***************************************************************************)
(* process_labelstudio_export and main() of the review script              *)
(***************************************************************************)
MaxQA == 2
MaxItems == 2

\* One entry of an annotation's result list.
Choice(name, c) == [from_name |-> name, value |-> [choices |-> <<c>>]]
Note(t) == [from_name |-> "notes", value |-> [text |-> t]]

\* The result lists a reviewer can leave: nothing chosen, one field chosen,
\* all fields chosen, a field chosen twice.
Results ==
    {<<>>,
     <<Choice("quality", "Fair")>>,
     <<Choice("accuracy", "Partially Accurate"), Choice("quality", "Fair")>>,
     <<Choice("accuracy", "Accurate"), Choice("relevance", "Relevant"),
       Choice("quality", "Good"), Choice("issues", "Too general"), Note(<<"n">>)>>,
     <<Choice("accuracy", "Cannot Determine"), Choice("quality", "Excellent"),
       Note(<<>>)>>,
     <<Choice("quality", "Poor"), Choice("accuracy", "Inaccurate"),
       Choice("quality", "Excellent")>>}

Annotation(r, who) == [result |-> r, completed_by |-> who, created_at |-> "t"]

\* No annotation, one, or an older one followed by the most recent.
AnnotationLists ==
    {<<>>}
    \cup {<<Annotation(r, 1)>> : r \in Results}
    \cup {<<Annotation(<<Choice("quality", "Poor")>>, 1), Annotation(r, 2)>> : r \in Results}

\* The ids a record can carry: those of the exported tasks, one past them,
\* 0, and negative ones.
ItemIds == (-(MaxQA + 1))..(MaxQA + 1)

Items ==
    {[id |-> i, annotations |-> a] : i \in ItemIds, a \in AnnotationLists}
    \cup {[annotations |-> a] : a \in AnnotationLists}

\* One pass of "for r in result" over an entry.
ApplyEntry(review, r) ==
    IF r.from_name = "accuracy" THEN [review EXCEPT !.accuracy = r.value.choices[1]]
    ELSE IF r.from_name = "relevance" THEN [review EXCEPT !.relevance = r.value.choices[1]]
    ELSE IF r.from_name = "quality" THEN [review EXCEPT !.quality = r.value.choices[1]]
    ELSE IF r.from_name = "issues" THEN [review EXCEPT !.issues = r.value.choices]
    ELSE IF r.from_name = "notes"
         THEN [review EXCEPT !.notes = IF r.value.text # <<>> THEN r.value.text[1] ELSE None]
    ELSE review

RECURSIVE ApplyResult(_, _)
ApplyResult(review, result) ==
    IF result = <<>> THEN review
    ELSE ApplyResult(ApplyEntry(review, Head(result)), Tail(result))

\* review_data as extracted from a result list: every field starts as None.
ExtractReview(result) == ApplyResult(ReviewData(None, None), result)

QaId_SameAsId(rec) == DictGet(rec, "id", 0)

\* The index the code uses: int(item.get('id', 0)) - 1
QaId(rec) == DictGet(rec, "id", 0) - 1

\* lst[i] raises IndexError outside -len .. len - 1
IndexError(lst, i) == i >= Len(lst) \/ i < -Len(lst)

\* lst[i], a negative i counting from the end
PyIndex(lst, i) == IF i >= 0 THEN lst[i + 1] ELSE lst[Len(lst) + i + 1]

Merged(rec) ==
    LET annotation == rec.annotations[Len(rec.annotations)]
    IN PyIndex(original_qa, QaId(rec))
         @@ [review |-> ExtractReview(annotation.result),
             reviewer_id |-> DictGet(annotation, "completed_by", "unknown"),
             review_date |-> DictGet(annotation, "created_at", "")]

\* The document whose QA pairs are reviewed: one line, one chunk.
ReviewDocument == <<"A">>

\* The state after main() has generated n pairs from that one chunk.
InitReview ==
    /\ pc = "main_done"
    /\ text = ReviewDocument
    /\ chunk_size = Len(ReviewDocument)
    /\ overlap = 0
    /\ start = Len(ReviewDocument)
    /\ chunk_id = 1
    /\ chunks = <<ChunkData(0, Len(ReviewDocument), 0)>>
    /\ gen_i = 1
    /\ response \in {Parsed([i \in 1..n |-> OriginalPair(i)]) : n \in 0..MaxQA}
    /\ all_qa_pairs = GenerateQaPairsWithRefs(chunks[1], response)
    /\ tasks = <<>>
    /\ min_quality \in MinQualityChoices
    /\ original_qa = <<>>
    /\ processed_qa = <<>>
    /\ completed = 0
    /\ item_no = 0
    /\ item = NoItem
    /\ filtered_qa = <<>>
    /\ rejected_qa = <<>>
    /\ IdleLoc

\* The review script starts: it reads the export and the QA file main() wrote.
LoadOriginal ==
    /\ pc = "exported"
    /\ pc' = "processing"
    /\ original_qa' = all_qa_pairs
    /\ UNCHANGED <<processed_qa, completed, item_no, item,
                   min_quality, filtered_qa, rejected_qa>>
    /\ UNCHANGED <<chunkVars, locVars>>

\* One iteration of "for item in reviewed_data" on the next record.
ProcessItem ==
    /\ pc = "processing"
    /\ item_no < MaxItems
    /\ \E rec \in Items :
         /\ item_no' = item_no + 1
         /\ item' = rec
         /\ IF rec.annotations = <<>>
            THEN UNCHANGED <<pc, completed, processed_qa>>
            ELSE /\ completed' = completed + 1
                 /\ IF QaId(rec) < Len(original_qa)
                    THEN IF IndexError(original_qa, QaId(rec))
                         THEN pc' = "process_crashed" /\ UNCHANGED processed_qa
                         ELSE /\ processed_qa' = Append(processed_qa, Merged(rec))
                              /\ UNCHANGED pc
                    ELSE UNCHANGED <<pc, processed_qa>>
    /\ UNCHANGED <<original_qa, min_quality, filtered_qa, rejected_qa>>
    /\ UNCHANGED <<chunkVars, locVars>>

\* The export is exhausted: main() filters, writes the lists, and builds the
\* report, which divides by stats['total'].
FilterProcessed ==
    /\ pc = "processing"
    /\ LET r == FilterQaByQuality(processed_qa, min_quality)
       IN filtered_qa' = r.filtered /\ rejected_qa' = r.rejected
    /\ pc' = IF item_no = 0 THEN "report_crashed" ELSE "review_done"
    /\ UNCHANGED <<original_qa, processed_qa, completed, item_no, item,
                   min_quality>>
    /\ UNCHANGED <<chunkVars, locVars>>

NextReview ==
    \/ Export
    \/ LoadOriginal
    \/ ProcessItem
    \/ FilterProcessed

SpecReview == InitReview /\ [][NextReview]_vars

(***************************************************************************)
(* Properties of the chunker.                                              *)
(***************************************************************************)
LastChunk == chunks[Len(chunks)]
ChunkingOver == pc # "chunking"

\* NewlinesIn(a, b): the number of newline characters among text[a+1..b]
NewlinesIn(a, b) == Cardinality({k \in (a + 1)..b : text[k] = NL})

\* C1: under a valid configuration the cursor strictly increases on every
\* iteration (each chunk starts after the one before it, and the cursor
\* left by an iteration lies after the start of the chunk it emitted) and
\* never passes len(text), so the loop ends within len(text) iterations;
\* when it has ended on a non-empty text, the last chunk's char_end is
\* len(text).
C1_TerminatesAtEnd ==
    ValidConfig =>
        /\ \A i \in 1..(Len(chunks) - 1) :
              chunks[i + 1].char_start > chunks[i].char_start
        /\ chunks # <<>> => start > LastChunk.char_start
        /\ start <= Len(text)
        /\ Len(chunks) <= Len(text)
        /\ (ChunkingOver /\ text # <<>>) =>
              (chunks # <<>> /\ LastChunk.char_end = Len(text))

C1_Witness ==
    /\ ValidConfig
    /\ pc = "generating"
    /\ overlap > 0
    /\ Len(chunks) >= 3
    /\ LastChunk.char_end = Len(text)

\* C2: under a valid configuration every chunk but the last is exactly
\* chunk_size long and each chunk starts overlap characters before the end
\* of the one before it; so chunk i (0-based) covers
\* [i * (chunk_size - overlap), min(that + chunk_size, len(text))).
C2_SizeAndOverlap ==
    ValidConfig =>
        /\ \A i \in 1..(Len(chunks) - 1) :
              /\ chunks[i].char_end - chunks[i].char_start = chunk_size
              /\ chunks[i + 1].char_start = chunks[i].char_end - overlap
        /\ \A i \in 1..Len(chunks) :
              /\ chunks[i].char_start = (i - 1) * (chunk_size - overlap)
              /\ chunks[i].char_end =
                    Min(chunks[i].char_start + chunk_size, Len(text))

\* Two chunks that overlap, the last one shorter than chunk_size.
C2_Witness ==
    /\ ValidConfig
    /\ ChunkingOver
    /\ overlap > 0
    /\ Len(chunks) >= 2
    /\ LastChunk.char_end - LastChunk.char_start < chunk_size

\* C3: a configuration with overlap >= chunk_size or chunk_size <= 0 is
\* rejected before chunking begins: the loop emits no chunk under it.
C3_InvalidConfigRejected == ~ValidConfig => chunks = <<>>

\* C4: every chunk's text is the substring of the document its char_start
\* and char_end delimit, and the context the export slices from the
\* document for a QA pair is the text of the chunk the pair came from.
C4_RoundTrip ==
    /\ \A i \in 1..Len(chunks) :
          LET c == chunks[i]
          IN /\ c.text = PySlice(text, c.char_start, c.char_end)
             /\ ValidConfig =>
                   /\ 0 <= c.char_start
                   /\ c.char_start <= c.char_end
                   /\ c.char_end <= Len(text)
                   /\ Len(c.text) = c.char_end - c.char_start
                   /\ \A k \in 1..Len(c.text) : c.text[k] = text[c.char_start + k]
    /\ pc = "exported" =>
          /\ Len(tasks) = Len(all_qa_pairs)
          /\ \A i \in 1..Len(tasks) :
                tasks[i].data.context =
                    chunks[all_qa_pairs[i].reference.chunk_id + 1].text

C4_Witness ==
    /\ pc = "exported"
    /\ ValidConfig
    /\ \E i, j \in 1..Len(tasks) :
          /\ tasks[i].data.chunk_id # tasks[j].data.chunk_id
          /\ tasks[j].data.char_range[1] > 0
          /\ tasks[j].data.context # <<>>

C6_EmptyAndShort ==
    /\ text = <<>> => chunks = <<>>
    /\ (ChunkingOver /\ text # <<>> /\ Len(text) < chunk_size) =>
          /\ Len(chunks) = 1
          /\ chunks[1].char_start = 0
          /\ chunks[1].char_end = Len(text)
    /\ (text # <<>> /\ Len(text) < chunk_size) => Len(chunks) <= 1

\* A short document chunked under an overlap that is not below chunk_size.
C6_Witness ==
    /\ ChunkingOver
    /\ text # <<>>
    /\ Len(text) < chunk_size
    /\ overlap >= chunk_size
    /\ Len(chunks) = 1

(***************************************************************************)
(* Properties of the generated references.                                 *)
(***************************************************************************)
\* C8: a returned pair's reference has both answer-line keys when the
\* locator finds the answer in the pair's chunk (at line 0 too) and neither
\* when it does not; answer_line_in_doc is line_start plus
\* answer_line_in_chunk.
C8_AnswerLineKeys ==
    \A i \in 1..Len(all_qa_pairs) :
        LET qa == all_qa_pairs[i]
            ref == qa.reference
            chunk == chunks[ref.chunk_id + 1]
            located == FindAnswerLocation(qa.answer, chunk.text)
        IN /\ HasKey(ref, "answer_line_in_chunk") <=> located # NotFound
           /\ HasKey(ref, "answer_line_in_doc") <=> located # NotFound
           /\ located # NotFound =>
                 /\ ref.answer_line_in_chunk = located
                 /\ ref.answer_line_in_doc = chunk.line_start + located

\* Pairs located at line 0, located further down, and not located.
C8_Witness ==
    \E i, j, k \in 1..Len(all_qa_pairs) :
        /\ HasKey(all_qa_pairs[i].reference, "answer_line_in_chunk")
        /\ all_qa_pairs[i].reference.answer_line_in_chunk = 0
        /\ HasKey(all_qa_pairs[j].reference, "answer_line_in_chunk")
        /\ all_qa_pairs[j].reference.answer_line_in_chunk > 0
        /\ all_qa_pairs[j].reference.line_start > 1
        /\ ~HasKey(all_qa_pairs[k].reference, "answer_line_in_chunk")

(***************************************************************************)
(* Properties of the locator.                                              *)
(***************************************************************************)
\* The maximal runs of non-whitespace characters of s, as index pairs.
TokenRuns(s) ==
    {r \in (1..Len(s)) \X (1..Len(s)) :
        /\ r[1] <= r[2]
        /\ \A k \in r[1]..r[2] : s[k] \notin {SP, NL}
        /\ (r[1] = 1 \/ s[r[1] - 1] \in {SP, NL})
        /\ (r[2] = Len(s) \/ s[r[2] + 1] \in {SP, NL})}

NthToken(s, n) ==
    LET r == CHOOSE r \in TokenRuns(s) :
                Cardinality({q \in TokenRuns(s) : q[1] < r[1]}) = n - 1
    IN SubSeq(s, r[1], r[2])

\* The first n tokens of s, lower-cased, joined by single spaces.
RECURSIVE ProbeOf(_, _)
ProbeOf(s, n) ==
    IF n = 0 THEN <<>>
    ELSE IF n = 1 THEN Lower(NthToken(s, 1))
    ELSE ProbeOf(s, n - 1) \o <<SP>> \o Lower(NthToken(s, n))

ClaimProbe(answer) == ProbeOf(answer, Min(Cardinality(TokenRuns(answer)), 5))

Occurrences(hay, needle) ==
    {p \in 0..(Len(hay) - Len(needle)) :
        \A k \in 1..Len(needle) : hay[p + k] = needle[k]}

\* C7: the result is "not found" exactly when the probe (the first 5
\* tokens of the answer, lower-cased, joined by single spaces) does not
\* occur in the lower-cased chunk; otherwise it is the number of newlines
\* in chunk_text[0:p], p the offset of the leftmost occurrence.
C7_LeftmostProbeLine ==
    pc = "located" =>
        LET occ == Occurrences(Lower(loc_chunk), ClaimProbe(loc_answer))
        IN /\ loc_result = NotFound <=> occ = {}
           /\ occ # {} =>
                 \E p \in occ :
                    /\ \A q \in occ : p <= q
                    /\ loc_result =
                          Cardinality({k \in 1..Min(p, Len(loc_chunk)) :
                                          loc_chunk[k] = NL})

\* An answer of more than 5 words found below the first line of a chunk
\* that holds the probe twice.
C7_Witness ==
    /\ pc = "located"
    /\ Cardinality(TokenRuns(loc_answer)) > 5
    /\ loc_result > 0
    /\ Cardinality(Occurrences(Lower(loc_chunk), ClaimProbe(loc_answer))) > 1

(***************************************************************************)
(* Properties of the quality filter.                                       *)
(***************************************************************************)
Scale == <<"Poor", "Fair", "Good", "Excellent">>
OnScale(q) == \E k \in 1..Len(Scale) : Scale[k] = q
Tier(q) == CHOOSE k \in 1..Len(Scale) : Scale[k] = q

\* The acceptance rule of the claim.
ClaimAccepts(qa) ==
    /\ OnScale(qa.review.quality)
    /\ Tier(qa.review.quality) >= Tier(min_quality)
    /\ qa.review.accuracy \in {"Accurate", "Partially Accurate"}

ClaimRejects(qa) == ~ClaimAccepts(qa)

\* C9: an item is accepted iff its quality tier is at least the threshold
\* on Poor < Fair < Good < Excellent and its accuracy is Accurate or
\* Partially Accurate; the accepted and the rejected lists split the input,
\* each item in exactly one of them.
C9_FilterRule ==
    pc = "filtered" =>
        /\ filtered_qa = SelectSeq(processed_qa, ClaimAccepts)
        /\ rejected_qa = SelectSeq(processed_qa, ClaimRejects)
        /\ Len(filtered_qa) + Len(rejected_qa) = Len(processed_qa)

\* Good/Accurate accepted next to Fair/Accurate rejected at threshold Good.
C9_Witness ==
    /\ pc = "filtered"
    /\ min_quality = "Good"
    /\ \E i \in 1..Len(filtered_qa) :
          /\ filtered_qa[i].review.quality = "Good"
          /\ filtered_qa[i].review.accuracy = "Accurate"
    /\ \E i \in 1..Len(rejected_qa) :
          /\ rejected_qa[i].review.quality = "Fair"
          /\ rejected_qa[i].review.accuracy = "Accurate"

Unreviewed(qa) == qa.review.quality = None /\ qa.review.accuracy = None

InList(qa, lst) == \E i \in 1..Len(lst) : lst[i] = qa

\* C10: a missing quality label counts as Fair and a missing accuracy label
\* as Partially Accurate, so a merged record whose reviewer chose neither is
\* accepted at threshold Fair.
C10_MissingLabelsDefault ==
    (pc = "review_done" /\ min_quality = "Fair") =>
        \A i \in 1..Len(processed_qa) :
            Unreviewed(processed_qa[i]) => InList(processed_qa[i], filtered_qa)

(***************************************************************************)
(* Properties of the generation loop.                                      *)
(***************************************************************************)
\* A reply the claim counts as a failed generation: an error of the service,
\* content that does not parse, or an element without question or answer.
FailedGeneration(resp) ==
    \/ resp.kind \in {"service_error", "not_json"}
    \/ /\ resp.kind = "list"
       /\ \E i \in 1..Len(resp.items) :
             ~({"question", "answer"} \subseteq DOMAIN resp.items[i])

PairsOfChunk(id) ==
    {i \in 1..Len(all_qa_pairs) : all_qa_pairs[i].reference.chunk_id = id}

\* C11: a chunk whose generation failed contributes no QA pair, the loop
\* goes on to every other chunk, and the aggregated pairs are in
\* non-decreasing order of reference.chunk_id.
C11_FailureIsolation ==
    /\ (gen_i > 0 /\ FailedGeneration(response)) => PairsOfChunk(gen_i - 1) = {}
    /\ pc \in {"main_done", "main_crashed", "exported", "export_crashed"} =>
          gen_i = Len(chunks)
    /\ \A i \in 1..(Len(all_qa_pairs) - 1) :
          all_qa_pairs[i].reference.chunk_id
             <= all_qa_pairs[i + 1].reference.chunk_id

(***************************************************************************)
(* Properties of the id round trip between export and review.              *)
(***************************************************************************)
\* The index of the latest record lies outside 0 .. len(original_qa) - 1.
OutOfRange(i) == i < 0 \/ i >= Len(original_qa)

\* C12: a record whose index id - 1 is outside 0 .. len(original_qa) - 1 is
\* skipped silently: reading it leaves the processed list as it was, merges
\* no original pair, and does not abort the batch.
C12_OutOfRangeSkipped ==
    [][(pc = "processing" /\ item_no' = item_no + 1 /\ OutOfRange(QaId(item')))
          => (processed_qa' = processed_qa /\ pc' = "processing")]_vars

\* The record read last carries the id of the task at 1-based position i.
RecordOfTask(rec, i) == HasKey(rec, "id") /\ rec.id = tasks[i].id

LastAnnotation(rec) == rec.annotations[Len(rec.annotations)]

\* C13: the task exported for the pair at 0-based position i has id i + 1,
\* and reading an annotated record with that id appends exactly one entry:
\* that pair, with its question, answer and reference, and with the review,
\* reviewer and date of the record's last annotation.
C13_IdRoundTrip ==
    [][(pc = "processing" /\ item_no' = item_no + 1 /\ item'.annotations # <<>>)
          => \A i \in 1..Len(tasks) :
                /\ tasks[i].id = (i - 1) + 1
                /\ RecordOfTask(item', i) =>
                      /\ pc' = "processing"
                      /\ Len(processed_qa') = Len(processed_qa) + 1
                      /\ SubSeq(processed_qa', 1, Len(processed_qa)) = processed_qa
                      /\ LET e == processed_qa'[Len(processed_qa')]
                             last == LastAnnotation(item')
                         IN /\ e.question = tasks[i].data.question
                            /\ e.answer = tasks[i].data.answer
                            /\ e.question = all_qa_pairs[i].question
                            /\ e.answer = all_qa_pairs[i].answer
                            /\ e.reference = all_qa_pairs[i].reference
                            /\ e.review = ExtractReview(last.result)
                            /\ e.reviewer_id = last.completed_by
                            /\ e.review_date = last.created_at]_vars

\* Two pairs were exported; the record of the second task, annotated twice,
\* was merged with the second pair and the later annotation.
C13_Witness ==
    /\ pc = "processing"
    /\ Len(tasks) = 2
    /\ RecordOfTask(item, 2)
    /\ Len(item.annotations) = 2
    /\ processed_qa # <<>>
    /\ processed_qa[Len(processed_qa)].question = all_qa_pairs[2].question
    /\ processed_qa[Len(processed_qa)].question # all_qa_pairs[1].question
    /\ processed_qa[Len(processed_qa)].reviewer_id = 2

(***************************************************************************)
(* Properties of the emitted chunks.                                       *)
(***************************************************************************)
\* C14: under a valid configuration every emitted chunk is non-empty
\* (char_start < char_end, and its text has that many characters), the
\* chunk ids are 0, 1, 2, ... in emission order, and char_start strictly
\* increases from each chunk to the next.
C14_NonEmptyOrderedChunks ==
    ValidConfig =>
        /\ \A i \in 1..Len(chunks) :
              /\ chunks[i].char_start < chunks[i].char_end
              /\ Len(chunks[i].text) = chunks[i].char_end - chunks[i].char_start
              /\ chunks[i].id = i - 1
        /\ \A i \in 1..(Len(chunks) - 1) :
              chunks[i].char_start < chunks[i + 1].char_start

\* The text ends exactly where a full-size chunk ends: the loop has returned
\* with the cursor at len(text) and no further chunk.
C14_Witness ==
    /\ ValidConfig
    /\ pc = "generating"
    /\ Len(chunks) >= 2
    /\ LastChunk.char_end - LastChunk.char_start = chunk_size
    /\ LastChunk.char_end = Len(text)
    /\ start = Len(text)
    /\ LastChunk.id = Len(chunks) - 1

(***************************************************************************)
(* Properties of the answer line.                                          *)
(***************************************************************************)
\* An answer with no word in it: empty, or whitespace only.
Blank(answer) == \A k \in 1..Len(answer) : answer[k] \in {SP, NL}

\* C15: a reference that carries answer_line_in_doc has it within the line
\* range of its chunk, and answer_line_in_chunk between 0 and the number of
\* newlines of the chunk text; a pair whose answer is empty or whitespace
\* only always carries the keys, with the answer at line 0 of the chunk.
C15_AnswerLineInRange ==
    \A i \in 1..Len(all_qa_pairs) :
        LET qa == all_qa_pairs[i]
            ref == qa.reference
            chunk == chunks[ref.chunk_id + 1]
        IN /\ HasKey(ref, "answer_line_in_doc") =>
                 /\ chunk.line_start <= ref.answer_line_in_doc
                 /\ ref.answer_line_in_doc <= chunk.line_end
                 /\ 0 <= ref.answer_line_in_chunk
                 /\ ref.answer_line_in_chunk <= Count(chunk.text, NL)
           /\ Blank(qa.answer) =>
                 /\ HasKey(ref, "answer_line_in_doc")
                 /\ ref.answer_line_in_chunk = 0
                 /\ ref.answer_line_in_doc = chunk.line_start

\* A whitespace-only answer located at the first line of a chunk that does
\* not start the document, and an answer found on the last line of a chunk
\* of several lines.
C15_Witness ==
    \E i, j \in 1..Len(all_qa_pairs) :
        /\ all_qa_pairs[i].answer = <<SP>>
        /\ HasKey(all_qa_pairs[i].reference, "answer_line_in_doc")
        /\ all_qa_pairs[i].reference.line_start > 1
        /\ all_qa_pairs[i].reference.answer_line_in_doc
              = all_qa_pairs[i].reference.line_start
        /\ HasKey(all_qa_pairs[j].reference, "answer_line_in_doc")
        /\ all_qa_pairs[j].reference.line_end > all_qa_pairs[j].reference.line_start
        /\ all_qa_pairs[j].reference.answer_line_in_doc
              = all_qa_pairs[j].reference.line_end
====
